---- MODULE Spec2Model ----
(***************************************************************************)
(* Development front door of rofy-ai/nextjs-saas: an Express server that   *)
(* guards a few local routes, proxies everything else to the Next dev      *)
(* server on :5173, rewrites navigation responses to inject a script tag,  *)
(* and supervises the dev-server child process.                            *)
(*                                                                         *)
(* Strings are modelled as sequences of tokens: "</head>" is the two       *)
(* tokens "</he","ad>" so that a chunk boundary can fall inside it.        *)
(***************************************************************************)
EXTENDS Integers, Sequences, FiniteSets, Bags, TLC

VARIABLES env, booted, viteProcess, events, exited, previewHost, firstHost, conns,
          relays, relayFailed, lastStderr, probe, answer

vars == <<env, booted, viteProcess, events, exited, previewHost, firstHost, conns,
          relays, relayFailed, lastStderr, probe, answer>>

\* The log relay's fetches in flight, whether one of them has failed, and the
\* last chunk a child wrote to stderr.
relayVars == <<relays, relayFailed, lastStderr>>

\* The argument and the result of a pure helper exercised on its own.
pureVars == <<probe, answer>>

aux == <<relayVars, pureVars>>

supVars == <<viteProcess, events, exited>>

(* ------------------------------ bounds -------------------------------- *)
MaxInFlight == 1
MaxChildren == 3
MaxChunk == 2

Null == "null"
Absent == "absent"
\* viteProcess = null: children are numbered from 1 in spawn order.
NoChild == 0

(* ------------------------- string helpers ----------------------------- *)
StartsWith(s, p) ==
    Len(s) >= Len(p) /\ SubSeq(s, 1, Len(p)) = p

MatchesAt(s, p, i) ==
    i + Len(p) - 1 <= Len(s) /\ SubSeq(s, i, i + Len(p) - 1) = p

Includes(s, p) ==
    \E i \in 1..(Len(s) + 1) : MatchesAt(s, p, i)

FirstIndex(s, p) ==
    CHOOSE i \in 1..(Len(s) + 1) :
        MatchesAt(s, p, i) /\ \A j \in 1..(i - 1) : ~MatchesAt(s, p, j)

\* String.prototype.replace with a string pattern: the first occurrence only.
ReplaceFirst(s, p, r) ==
    IF ~Includes(s, p) THEN s
    ELSE LET i == FirstIndex(s, p)
         IN SubSeq(s, 1, i - 1) \o r \o SubSeq(s, i + Len(p), Len(s))

RECURSIVE Concat(_)
\* Buffer.concat(chunks)
Concat(chunks) ==
    IF chunks = <<>> THEN <<>> ELSE Head(chunks) \o Concat(Tail(chunks))

(* ------------------------------ routes -------------------------------- *)
allowedRoutes ==
    { <<"/", "api", "/", "rofyDownloadFiles">>,
      <<"/", "api", "/", "rofyUpdateFiles">>,
      <<"/", "api", "/", "restart-frontend">>,
      <<"/", "api", "/", "rofyLogs">> }

DownloadsPrefix == <<"/", "api", "/", "downloads", "/">>
RestartPath == <<"/", "api", "/", "restart-frontend">>
LogViewerUrl == <<"/", "log-viewer.js">>

\* req.path: the url up to the query string.
RECURSIVE PathOf(_)
PathOf(url) ==
    IF url = <<>> \/ Head(url) = "?" THEN <<>>
    ELSE <<Head(url)>> \o PathOf(Tail(url))

GuardNoDownloads(originalUrl) ==
    originalUrl \in allowedRoutes

\* The guard middleware's condition: TRUE means next() (handled locally).
Guard(originalUrl) ==
    originalUrl \in allowedRoutes \/ StartsWith(originalUrl, DownloadsPrefix)

(* ------------------------- process supervisor ------------------------- *)
\* The supervisor state is the record [viteProcess, events]; events is the
\* log of spawn() and kill("SIGTERM") calls in the order they were made, each
\* with the value viteProcess had when the call was made.
SpawnedIn(ev) == { ev[i].child : i \in { j \in 1..Len(ev) : ev[j].op = "spawn" } }
KilledIn(ev) == { ev[i].child : i \in { j \in 1..Len(ev) : ev[j].op = "kill" } }

startDevServer(s) ==
    LET devServer == Cardinality(SpawnedIn(s.events)) + 1
    IN [viteProcess |-> devServer,
        events |-> Append(s.events, [op |-> "spawn", child |-> devServer,
                                     handle |-> s.viteProcess])]

stopDevServerNoKill(s) ==
    [s EXCEPT !.viteProcess = NoChild]

stopDevServerNoClear(s) ==
    IF s.viteProcess # NoChild
    THEN [s EXCEPT !.events = Append(s.events, [op |-> "kill", child |-> s.viteProcess,
                                                handle |-> s.viteProcess])]
    ELSE s

stopDevServer(s) ==
    IF s.viteProcess # NoChild
    THEN [viteProcess |-> NoChild,
          events |-> Append(s.events, [op |-> "kill", child |-> s.viteProcess,
                                       handle |-> s.viteProcess])]
    ELSE s

restartStartFirst(s) ==
    stopDevServer(startDevServer(s))

restartDevServer(s) ==
    startDevServer(stopDevServer(s))

Sup == [viteProcess |-> viteProcess, events |-> events]

CanSpawn == Cardinality(SpawnedIn(events)) < MaxChildren

(* ----------------------- HTML injection helpers ----------------------- *)
Marker == <<"data-rofy">>
Tag == <<"<script ", "data-rofy", "></script>">>
HeadClose == <<"</he", "ad>">>
BodyClose == <<"</bo", "dy>">>

HeaderOrEmpty(v) == IF v = Absent THEN <<>> ELSE v

isNavigationRequestAnySite(req) ==
    LET accept == HeaderOrEmpty(req.hdr.accept)
        dest == HeaderOrEmpty(req.hdr.dest)
        mode == HeaderOrEmpty(req.hdr.mode)
    IN /\ req.method = "GET"
       /\ Includes(accept, <<"text/html">>)
       /\ dest = <<"document">>
       /\ mode = <<"navigate">>

isNavigationRequest(req) ==
    LET accept == HeaderOrEmpty(req.hdr.accept)
        dest == HeaderOrEmpty(req.hdr.dest)
        mode == HeaderOrEmpty(req.hdr.mode)
        site == HeaderOrEmpty(req.hdr.site)
    IN /\ req.method = "GET"
       /\ Includes(accept, <<"text/html">>)
       /\ dest = <<"document">>
       /\ mode = <<"navigate">>
       /\ site \in { <<"none">>, <<"same-origin">>, <<"cross-site">> }

injectHeadTagNoSentinel(html) ==
    IF Includes(html, HeadClose) THEN ReplaceFirst(html, HeadClose, Tag \o HeadClose)
    ELSE IF Includes(html, BodyClose) THEN ReplaceFirst(html, BodyClose, Tag \o BodyClose)
    ELSE html \o <<"\n">> \o Tag

injectHeadTagBodyFirst(html) ==
    IF Includes(html, Marker) THEN html
    ELSE IF Includes(html, BodyClose) THEN ReplaceFirst(html, BodyClose, Tag \o BodyClose)
    ELSE IF Includes(html, HeadClose) THEN ReplaceFirst(html, HeadClose, Tag \o HeadClose)
    ELSE html \o <<"\n">> \o Tag

injectHeadTag(html) ==
    IF Includes(html, Marker) THEN html
    ELSE IF Includes(html, HeadClose) THEN ReplaceFirst(html, HeadClose, Tag \o HeadClose)
    ELSE IF Includes(html, BodyClose) THEN ReplaceFirst(html, BodyClose, Tag \o BodyClose)
    ELSE html \o <<"\n">> \o Tag

(* --------------------------- response headers ------------------------- *)
HeaderNames == {"content-type", "content-length", "cache-control"}

NoHeaders == [n \in HeaderNames |-> Absent]

\* proxyRes.statusCode || 200
StatusOrDefault(status) == IF status = 0 THEN 200 ELSE status

RewrittenHeadersKeepLength(headers) ==
    [headers EXCEPT !["content-type"] = "text/html; charset=utf-8",
                    !["cache-control"] = "no-store"]

\* The header object written with a rewritten document.
RewrittenHeaders(headers) ==
    [headers EXCEPT !["content-length"] = Absent,
                    !["content-type"] = "text/html; charset=utf-8",
                    !["cache-control"] = "no-store"]

(* ------------------------------- inputs ------------------------------- *)
Methods == {"GET", "POST"}

Urls ==
    { <<"/">>,
      LogViewerUrl,
      RestartPath,
      RestartPath \o <<"?", "x=1">>,
      DownloadsPrefix \o <<"f.zip">> }

NavHdr ==
    [accept |-> <<"text/html", ",", "*/*">>, dest |-> <<"document">>,
     mode |-> <<"navigate">>, site |-> <<"none">>]

ApiHdr ==
    [accept |-> <<"application/json">>, dest |-> <<"empty">>,
     mode |-> <<"cors">>, site |-> <<"same-origin">>]

HdrProfiles == {NavHdr, ApiHdr}

Hosts == {Absent, "preview-abc123.example.dev"}

Requests == [method : Methods, url : Urls, hdr : HdrProfiles]

\* What the dev server on :5173 may answer.
UpstreamResponses ==
    { [status |-> 200,
       headers |-> [NoHeaders EXCEPT !["content-type"] = "text/html",
                                     !["content-length"] = "3"],
       body |-> <<"x", "</he", "ad>">>],
      [status |-> 404,
       headers |-> [NoHeaders EXCEPT !["content-type"] = "application/json",
                                     !["cache-control"] = "max-age=60"],
       body |-> <<"{}">>],
      [status |-> 500,
       headers |-> NoHeaders,
       body |-> <<"data-rofy", "x">>] }

NoUp == [status |-> 0, headers |-> NoHeaders, body |-> <<>>]

NoReq == [method |-> "none", url |-> <<>>, hdr |-> ApiHdr]

NoClient ==
    [headSent |-> FALSE, status |-> 0, headers |-> NoHeaders, body |-> <<>>,
     ended |-> FALSE]

IdleConn ==
    [phase |-> "idle", req |-> NoReq, handler |-> "none", outEnc |-> "none",
     up |-> NoUp, delivered |-> 0, chunks |-> <<>>, client |-> NoClient,
     gone |-> FALSE]

\* A response produced and ended by a local handler (res.json, static, 404).
LocalClient(status) ==
    [headSent |-> TRUE, status |-> status, headers |-> NoHeaders, body |-> <<>>,
     ended |-> TRUE]

(* ------------------------------ the proxy ----------------------------- *)
\* on.proxyReq: the accept-encoding of the outbound request.
proxyReq(req) ==
    IF req.url = LogViewerUrl THEN "inherit"
    ELSE IF isNavigationRequest(req) THEN "identity"
    ELSE "inherit"

\* proxyToNext5173(req, res, next): the outbound request is created and sent.
Forward(req) ==
    [IdleConn EXCEPT !.phase = "sent", !.req = req, !.handler = "proxy",
                     !.outEnc = proxyReq(req)]

\* on.proxyRes: the upstream response head u has arrived for connection c.
proxyRes(c, u) ==
    IF c.req.url = LogViewerUrl
    THEN [c EXCEPT !.phase = "done", !.up = u,
                   !.client = [NoClient EXCEPT !.headSent = TRUE, !.status = 404,
                                               !.ended = TRUE]]
    ELSE IF ~isNavigationRequest(c.req)
    THEN [c EXCEPT !.phase = "piping", !.up = u,
                   !.client = [NoClient EXCEPT !.headSent = TRUE,
                                               !.status = StatusOrDefault(u.status),
                                               !.headers = u.headers]]
    ELSE [c EXCEPT !.phase = "buffering", !.up = u]

\* The upstream stream's 'data' event: pipe(res) writes the chunk through,
\* the navigation branch pushes it onto chunks.
onData(c, chunk) ==
    IF c.phase = "piping"
    THEN [c EXCEPT !.delivered = @ + Len(chunk), !.client.body = @ \o chunk]
    ELSE [c EXCEPT !.delivered = @ + Len(chunk), !.chunks = Append(@, chunk)]

\* The upstream stream's 'end' event.
onEnd(c) ==
    IF c.phase = "piping"
    THEN [c EXCEPT !.phase = "done", !.client.ended = TRUE]
    ELSE [c EXCEPT !.phase = "done",
                   !.client = [headSent |-> TRUE,
                               status |-> StatusOrDefault(c.up.status),
                               headers |-> RewrittenHeaders(c.up.headers),
                               body |-> injectHeadTag(Concat(c.chunks)),
                               ended |-> TRUE]]

(* ---------------------------- the program ----------------------------- *)
NoStderr == [from |-> NoChild, block |-> <<>>]

NoProbe == [req |-> NoReq, html |-> <<>>]

NoAnswer == [kind |-> "none", nav |-> FALSE, once |-> <<>>, html |-> <<>>]

\* conns is the bag of connections in flight; a connection leaves it when it
\* is closed.
Open(c) == conns (+) SetToBag({c})

Replace(c, d) == (conns (-) SetToBag({c})) (+) SetToBag({d})

CanAccept == BagCardinality(conns) < MaxInFlight

Init ==
    /\ env \in {"development", "production"}
    /\ booted = FALSE
    /\ viteProcess = NoChild
    /\ events = <<>>
    /\ exited = {}
    /\ previewHost = Null
    /\ firstHost = "none"
    /\ conns = EmptyBag
    /\ relays = EmptyBag
    /\ relayFailed = FALSE
    /\ lastStderr = NoStderr
    /\ probe = NoProbe
    /\ answer = NoAnswer

\* The boot IIFE: start the dev server in development, then listen.
Boot ==
    /\ ~booted
    /\ booted' = TRUE
    /\ LET s == IF env = "development" THEN startDevServer(Sup) ELSE Sup
       IN /\ viteProcess' = s.viteProcess
          /\ events' = s.events
    /\ UNCHANGED <<aux, env, exited, previewHost, firstHost, conns>>

\* The previewHost middleware: if (!previewHost) previewHost = host || ''.
SetPreviewHost(cur, host) ==
    IF cur = Null \/ cur = ""
    THEN (IF host = Absent THEN "" ELSE host)
    ELSE cur

\* The response of the middleware chain to an HTTP request, up to the first
\* handler that answers it: express.static on /api/downloads, the restart
\* route, then (in development) the guard and the proxy.
Route(req, fileExists) ==
    LET path == PathOf(req.url)
    IN IF req.method = "GET" /\ StartsWith(path, DownloadsPrefix) /\ fileExists
       THEN "static"
       ELSE IF req.method = "POST" /\ path = RestartPath
       THEN "restart"
       ELSE IF env # "development" \/ Guard(req.url)
       THEN "notfound"
       ELSE "proxy"

HandleRequest(req, host, fileExists) ==
    LET route == Route(req, fileExists)
        s == IF route = "restart" THEN restartDevServer(Sup) ELSE Sup
    IN /\ route = "restart" => CanSpawn
       /\ previewHost' = SetPreviewHost(previewHost, host)
       /\ firstHost' = IF firstHost = "none" THEN host ELSE firstHost
       /\ viteProcess' = s.viteProcess
       /\ events' = s.events
       /\ conns' = Open(
            IF route = "proxy"
            THEN Forward(req)
            ELSE [IdleConn EXCEPT !.phase = "done", !.req = req, !.handler = route,
                                  !.client = LocalClient(IF route = "notfound"
                                                         THEN 404 ELSE 200)])
       /\ UNCHANGED <<aux, env, booted, exited>>

Request ==
    /\ booted
    /\ CanAccept
    /\ \E req \in Requests, host \in Hosts, fileExists \in BOOLEAN :
          HandleRequest(req, host, fileExists)

\* server.on("upgrade"): every upgrade request goes to proxy.upgrade.
Upgrade ==
    /\ booted
    /\ CanAccept
    /\ \E url \in Urls :
          conns' = Open([IdleConn EXCEPT
                            !.phase = "tunnel", !.handler = "upgrade",
                            !.req = [method |-> "GET", url |-> url, hdr |-> ApiHdr],
                            !.outEnc = "inherit"])
    /\ UNCHANGED <<aux, env, booted, viteProcess, events, exited, previewHost, firstHost>>

\* The upstream answers a forwarded request.
ProxyRes ==
    \E c \in BagToSet(conns), u \in UpstreamResponses :
        /\ c.phase = "sent"
        /\ conns' = Replace(c, proxyRes(c, u))
        /\ UNCHANGED <<aux, env, booted, viteProcess, events, exited, previewHost, firstHost>>

\* The upstream stream emits its next chunk.
UpData ==
    \E c \in BagToSet(conns), n \in 1..MaxChunk :
        /\ c.phase \in {"piping", "buffering"}
        /\ c.delivered + n <= Len(c.up.body)
        /\ conns' = Replace(c, onData(c, SubSeq(c.up.body, c.delivered + 1,
                                                c.delivered + n)))
        /\ UNCHANGED <<aux, env, booted, viteProcess, events, exited, previewHost, firstHost>>

\* The upstream stream ends after its last chunk.
UpEnd ==
    \E c \in BagToSet(conns) :
        /\ c.phase \in {"piping", "buffering"}
        /\ c.delivered = Len(c.up.body)
        /\ conns' = Replace(c, onEnd(c))
        /\ UNCHANGED <<aux, env, booted, viteProcess, events, exited, previewHost, firstHost>>

\* A finished exchange (or a tunnel) goes away.
Close ==
    \E c \in BagToSet(conns) :
        /\ c.phase \in {"done", "tunnel"}
        /\ conns' = conns (-) SetToBag({c})
        /\ UNCHANGED <<aux, env, booted, viteProcess, events, exited, previewHost, firstHost>>

onExitRespawns(s, c) ==
    IF s.viteProcess = c /\ Cardinality(SpawnedIn(s.events)) < MaxChildren
    THEN startDevServer(s)
    ELSE s

\* devServer.on("exit") and devServer.on("error") of child c: they only log.
onExit(s, c) == s

\* A spawned child exits (or fails to spawn).
ChildExit ==
    \E c \in SpawnedIn(events) \ exited :
        /\ exited' = exited \cup {c}
        /\ viteProcess' = onExit(Sup, c).viteProcess
        /\ events' = onExit(Sup, c).events
        /\ UNCHANGED <<aux, env, booted, previewHost, firstHost, conns>>

Next ==
    \/ Boot
    \/ Request
    \/ Upgrade
    \/ ProxyRes
    \/ UpData
    \/ UpEnd
    \/ Close
    \/ ChildExit

Spec == Init /\ [][Next]_vars

(* ------------------ the program with clients going away --------------- *)
\* The client of a navigation that is being buffered disconnects. No handler
\* is registered for it: the 'data' and 'end' handlers stay on the upstream
\* stream.
ClientDisconnect ==
    \E c \in BagToSet(conns) :
        /\ c.phase = "buffering"
        /\ ~c.gone
        /\ conns' = Replace(c, [c EXCEPT !.gone = TRUE])
        /\ UNCHANGED <<aux, env, booted, viteProcess, events, exited, previewHost, firstHost>>

AbortNext ==
    \/ Next
    \/ ClientDisconnect

AbortSpec == Init /\ [][AbortNext]_vars

(* ------------------- the program with the log relay ------------------- *)
MaxPending == 1

Whitespace == {" ", "\n"}

\* String.prototype.trim
RECURSIVE TrimStart(_)
TrimStart(block) ==
    IF block # <<>> /\ Head(block) \in Whitespace THEN TrimStart(Tail(block))
    ELSE block

RECURSIVE TrimEnd(_)
TrimEnd(block) ==
    IF block # <<>> /\ block[Len(block)] \in Whitespace
    THEN TrimEnd(SubSeq(block, 1, Len(block) - 1))
    ELSE block

Trim(block) == TrimEnd(TrimStart(block))

\* What a child may write to stderr in one chunk.
StderrChunks ==
    { <<" ", "\n">>,
      <<"\n", "Error: x", "\n">>,
      <<"warn", " ", "y">> }

onStderrDataNoBlankCheck(block) ==
    <<Trim(block)>>

\* devServer.stderr.on("data"): the messages handed to logErrors.
onStderrData(block) ==
    IF Trim(block) = <<>> THEN <<>> ELSE <<Trim(block)>>

\* logErrors(message): one fetch to the review-errors endpoint. The request
\* is identified by the message it was called with; shrinkError and
\* stripAnsi shape the body only.
logErrors(message) ==
    [text |-> message]

onFetchRejectedStops(s) ==
    stopDevServer(s)

\* .catch(err => console.error(...)): the supervisor is left alone.
onFetchRejected(s) == s

\* Child c writes block to its stderr. Every child spawned so far still has
\* its listener: stopDevServer removes none.
StderrFrom(c, block) ==
    LET calls == onStderrData(block)
    IN /\ c \in SpawnedIn(events)
       /\ BagCardinality(relays) + Len(calls) <= MaxPending
       /\ relays' = IF calls = <<>> THEN relays
                     ELSE relays (+) SetToBag({logErrors(calls[1])})
       /\ lastStderr' = [from |-> c, block |-> block]
       /\ UNCHANGED <<pureVars, relayFailed, env, booted, viteProcess, events, exited,
                      previewHost, firstHost, conns>>

StderrData ==
    \E c \in 1..MaxChildren, block \in StderrChunks : StderrFrom(c, block)

\* The endpoint answers a relay request; the response is not inspected.
RelayOk ==
    \E r \in BagToSet(relays) :
        /\ relays' = relays (-) SetToBag({r})
        /\ UNCHANGED <<pureVars, relayFailed, lastStderr, env, booted, viteProcess, events,
                       exited, previewHost, firstHost, conns>>

\* A relay request fails: the rejection is caught and logged.
RelayFail ==
    \E r \in BagToSet(relays) :
        /\ relays' = relays (-) SetToBag({r})
        /\ relayFailed' = TRUE
        /\ viteProcess' = onFetchRejected(Sup).viteProcess
        /\ events' = onFetchRejected(Sup).events
        /\ UNCHANGED <<pureVars, lastStderr, env, booted, exited, previewHost, firstHost,
                       conns>>

\* The requests made while the relay is observed: a fetch that is proxied
\* and a restart, both from the preview host.
LogRequests ==
    { [method |-> "GET", url |-> <<"/">>, hdr |-> ApiHdr],
      [method |-> "POST", url |-> RestartPath, hdr |-> ApiHdr] }

LogRequest ==
    /\ booted
    /\ CanAccept
    /\ \E req \in LogRequests :
          HandleRequest(req, "preview-abc123.example.dev", FALSE)

LogNext ==
    \/ Boot
    \/ LogRequest
    \/ ProxyRes
    \/ UpData
    \/ UpEnd
    \/ Close
    \/ StderrData
    \/ RelayOk
    \/ RelayFail

LogSpec == Init /\ [][LogNext]_vars

(* ------------------- isNavigationRequest on its own ------------------- *)
\* The request methods and header values the classifier is tried on; a
\* header may be absent.
ProbeMethods == <<"GET", "POST", "HEAD">>

AcceptValues ==
    << Absent, <<"text/html">>, <<"text/html", ",", "*/*">>,
       <<"*/*", ",", "text/html">>, <<"application/json">> >>

DestValues == << Absent, <<"document">>, <<"empty">> >>

ModeValues == << Absent, <<"navigate">>, <<"cors">> >>

SiteValues ==
    << Absent, <<"none">>, <<"same-origin">>, <<"cross-site">>, <<"same-site">> >>

NavInit ==
    /\ env = "development"
    /\ booted = FALSE
    /\ viteProcess = NoChild
    /\ events = <<>>
    /\ exited = {}
    /\ previewHost = Null
    /\ firstHost = "none"
    /\ conns = EmptyBag
    /\ relays = EmptyBag
    /\ relayFailed = FALSE
    /\ lastStderr = NoStderr
    /\ answer = NoAnswer
    /\ \E m \in 1..Len(ProbeMethods), a \in 1..Len(AcceptValues),
          d \in 1..Len(DestValues), o \in 1..Len(ModeValues),
          t \in 1..Len(SiteValues) :
          probe = [req |-> [method |-> ProbeMethods[m], url |-> <<"/">>,
                            hdr |-> [accept |-> AcceptValues[a],
                                     dest |-> DestValues[d],
                                     mode |-> ModeValues[o],
                                     site |-> SiteValues[t]]],
                   html |-> <<>>]

Classify ==
    /\ answer.kind = "none"
    /\ answer' = [answer EXCEPT !.kind = "nav", !.nav = isNavigationRequest(probe.req)]
    /\ UNCHANGED <<probe, relayVars, env, booted, viteProcess, events, exited,
                   previewHost, firstHost, conns>>

NavNext == Classify

NavSpec == NavInit /\ [][NavNext]_vars

(* ---------------------- injectHeadTag on its own ---------------------- *)
MaxLen == 5

\* The pieces documents are made of: text, the halves of the closing tags
\* and the sentinel.
Pieces == {"x", "</he", "ad>", "</bo", "dy>", "data-rofy"}

Documents == UNION { [1..n -> Pieces] : n \in 0..MaxLen }

InjectInit ==
    /\ env = "development"
    /\ booted = FALSE
    /\ viteProcess = NoChild
    /\ events = <<>>
    /\ exited = {}
    /\ previewHost = Null
    /\ firstHost = "none"
    /\ conns = EmptyBag
    /\ relays = EmptyBag
    /\ relayFailed = FALSE
    /\ lastStderr = NoStderr
    /\ answer = NoAnswer
    /\ \E html \in Documents : probe = [req |-> NoReq, html |-> html]

\* injectHeadTag(html)
Inject ==
    /\ answer.kind = "none"
    /\ answer' = [answer EXCEPT !.kind = "inject", !.once = injectHeadTag(probe.html)]
    /\ UNCHANGED <<probe, relayVars, env, booted, viteProcess, events, exited,
                   previewHost, firstHost, conns>>

\* injectHeadTag applied to its own result
InjectAgain ==
    /\ answer.kind = "inject"
    /\ answer' = [answer EXCEPT !.kind = "inject2", !.html = injectHeadTag(answer.once)]
    /\ UNCHANGED <<probe, relayVars, env, booted, viteProcess, events, exited,
                   previewHost, firstHost, conns>>

InjectNext ==
    \/ Inject
    \/ InjectAgain

InjectSpec == InjectInit /\ [][InjectNext]_vars

(* ------------------- the supervisor's operations alone ---------------- *)
\* start(), stop() and restart() called in any order, as the operations of
\* the Process Supervisor component, with children exiting in between.
Start ==
    /\ CanSpawn
    /\ viteProcess' = startDevServer(Sup).viteProcess
    /\ events' = startDevServer(Sup).events
    /\ UNCHANGED <<aux, env, booted, exited, previewHost, firstHost, conns>>

Stop ==
    /\ viteProcess' = stopDevServer(Sup).viteProcess
    /\ events' = stopDevServer(Sup).events
    /\ UNCHANGED <<aux, env, booted, exited, previewHost, firstHost, conns>>

Restart ==
    /\ CanSpawn
    /\ viteProcess' = restartDevServer(Sup).viteProcess
    /\ events' = restartDevServer(Sup).events
    /\ UNCHANGED <<aux, env, booted, exited, previewHost, firstHost, conns>>

SupNext ==
    \/ Start
    \/ Stop
    \/ Restart
    \/ ChildExit

SupSpec == Init /\ [][SupNext]_vars

(* ------------------------------ properties ---------------------------- *)
Conns == BagToSet(conns)

\* A connection the guard handed to proxyToNext5173 as an HTTP request.
Proxied(c) == c.handler = "proxy"

Written(c) == c.client.headSent \/ c.client.body # <<>> \/ c.client.ended

\* C1: for every proxied request classified as a navigation, nothing is
\* written to the client until the upstream stream has ended and the whole
\* accumulated body has gone through the injector.
C1_NavigationBufferedUntilEnd ==
    \A c \in Conns :
        (Proxied(c) /\ isNavigationRequest(c.req) /\ Written(c)) =>
            /\ c.delivered = Len(c.up.body)
            /\ c.client.body = injectHeadTag(c.up.body)

\* C2: every rewritten navigation response has no content-length, has
\* cache-control no-store and content-type text/html; charset=utf-8, and
\* keeps the upstream's status code.
C2_RewrittenHeaders ==
    \A c \in Conns :
        (Proxied(c) /\ isNavigationRequest(c.req) /\ c.req.url # LogViewerUrl
            /\ Written(c)) =>
            /\ c.client.headers["content-length"] = Absent
            /\ c.client.headers["cache-control"] = "no-store"
            /\ c.client.headers["content-type"] = "text/html; charset=utf-8"
            /\ c.client.status = c.up.status

C2_Witness ==
    \E c \in Conns :
        /\ Proxied(c) /\ isNavigationRequest(c.req) /\ c.phase = "done"
        /\ c.req.url # LogViewerUrl
        /\ c.up.headers["content-length"] # Absent
        /\ c.up.headers["content-type"] # "text/html; charset=utf-8"

\* C3: for every proxied request that is not a navigation, the client gets
\* the upstream status, headers and body unchanged, chunk by chunk: what the
\* client has received is exactly what the upstream has sent so far.
C3_PassthroughVerbatim ==
    \A c \in Conns :
        (Proxied(c) /\ ~isNavigationRequest(c.req) /\ c.phase # "sent") =>
            /\ c.client.headSent
            /\ c.client.status = c.up.status
            /\ c.client.headers = c.up.headers
            /\ c.client.body = SubSeq(c.up.body, 1, c.delivered)
            /\ (c.client.ended => c.client.body = c.up.body)

\* C4: an HTTP request whose originalUrl is an allow-listed route or starts
\* with /api/downloads/ is never handed to the upstream proxy, whatever its
\* method and whatever has become of the dev server.
C4_GuardedNeverProxied ==
    \A c \in Conns :
        (c.handler # "upgrade"
            /\ (c.req.url \in allowedRoutes
                \/ (Len(c.req.url) >= 5
                    /\ SubSeq(c.req.url, 1, 5) = <<"/", "api", "/", "downloads", "/">>))) =>
            /\ c.handler \in {"static", "restart", "notfound"}
            /\ c.phase = "done"
            /\ c.up = NoUp

C4_Witness ==
    /\ env = "development"
    /\ viteProcess # NoChild
    /\ \E c \in Conns :
          /\ c.req.url = <<"/", "api", "/", "downloads", "/", "f.zip">>
          /\ c.req.method = "POST"
          /\ c.handler = "notfound"

\* C5: an HTTP request for /log-viewer.js is never forwarded upstream.
C5_LogViewerNeverForwarded ==
    \A c \in Conns :
        (c.req.url = LogViewerUrl /\ c.handler # "upgrade") => ~Proxied(c)

Unsignalled == SpawnedIn(events) \ KilledIn(events)

\* C6: at most one spawned child has not been sent SIGTERM by the supervisor,
\* it is the child the handle refers to, and once a child has been spawned
\* there is exactly one.
C6_OneUnsignalledChild ==
    /\ Cardinality(Unsignalled) <= 1
    /\ Unsignalled \subseteq {viteProcess}
    /\ (SpawnedIn(events) # {} => Unsignalled = {viteProcess})
    /\ (SpawnedIn(events) = {} => viteProcess = NoChild)

\* Two restarts after the boot-time start, with a child exit in between.
C6_Witness ==
    /\ env = "development"
    /\ Cardinality(SpawnedIn(events)) = 3
    /\ Cardinality(KilledIn(events)) = 2
    /\ exited # {}

\* C7: the old child is signalled strictly before its replacement is spawned:
\* every spawn is made with the handle cleared, and every child spawned
\* earlier has its kill earlier in the log.
C7_SignalBeforeSpawn ==
    \A i \in 1..Len(events) :
        events[i].op = "spawn" =>
            /\ events[i].handle = NoChild
            /\ \A j \in 1..(i - 1) :
                  events[j].op = "spawn" =>
                      \E k \in (j + 1)..(i - 1) :
                          events[k].op = "kill" /\ events[k].child = events[j].child

C7_Witness ==
    /\ Len(events) >= 3
    /\ events[Len(events)].op = "spawn"
    /\ events[Len(events) - 1].op = "kill"
    /\ events[Len(events) - 1].child \notin exited

\* C8: start() invoked while the handle refers to a child spawns nothing and
\* leaves the handle unchanged.
C8_StartNoOpWhenRunning ==
    [][(viteProcess # NoChild /\ Start) => UNCHANGED <<viteProcess, events>>]_vars

\* C9: stop() is idempotent: with a running child it sends one SIGTERM and
\* clears the handle, with no handle it does nothing, and a second stop()
\* adds no signal and changes nothing.
C9_StopIdempotent ==
    LET once == stopDevServer(Sup)
        twice == stopDevServer(once)
    IN /\ twice = once
       /\ once.viteProcess = NoChild
       /\ (viteProcess = NoChild => once = Sup)
       /\ (viteProcess # NoChild =>
             /\ Len(once.events) = Len(events) + 1
             /\ once.events[Len(once.events)].op = "kill"
             /\ once.events[Len(once.events)].child = viteProcess
             /\ SubSeq(once.events, 1, Len(events)) = events)

\* A stop() has just signalled a child and cleared the handle.
C9_Witness ==
    /\ viteProcess = NoChild
    /\ events # <<>>
    /\ events[Len(events)].op = "kill"

\* C10: previewHost is fixed by the first request: after it, previewHost is
\* that request's Host ('' when it had none) whatever arrives later.
C10_FirstRequestWins ==
    firstHost # "none" =>
        previewHost = (IF firstHost = Absent THEN "" ELSE firstHost)

\* C11: when a child exits or fails to spawn on its own, the supervision
\* state is reset: the handle never refers to a child that has exited.
C11_ExitResetsHandle ==
    viteProcess # NoChild => viteProcess \notin exited

\* C13: the outbound request carries accept-encoding identity exactly when
\* the inbound request is classified as a navigation.
C13_IdentityIffNavigation ==
    \A c \in Conns :
        Proxied(c) => (c.outEnc = "identity" <=> isNavigationRequest(c.req))

BootStep == ~booted /\ booted'

\* A request to the restart endpoint has just been answered.
RestartStep ==
    \E c \in BagToSet(conns') :
        /\ c.handler = "restart"
        /\ c.req.method = "POST"
        /\ conns' = conns (+) SetToBag({c})

\* C18: a child is spawned only by the boot-time start and by a request to
\* the restart endpoint; a child's exit spawns nothing and leaves the handle
\* where it was, so the exited child is not replaced.
C18_NoAutomaticRestart ==
    [][/\ (events' # events => (BootStep \/ RestartStep))
       /\ (exited' # exited => (events' = events /\ viteProcess' = viteProcess))]_vars

\* The handle's child has exited and nothing has been spawned in its place.
C18_Witness ==
    /\ viteProcess # NoChild
    /\ viteProcess \in exited
    /\ Unsignalled \ exited = {}
    /\ Cardinality(SpawnedIn(events)) >= 2

\* C12: if the client disconnects while a navigation response is being
\* buffered, nothing is written to its response when the upstream ends.
C12_NothingWrittenAfterDisconnect ==
    \A c \in Conns : c.gone => ~Written(c)

\* A chunk of nothing but whitespace.
Blank(block) == \A i \in 1..Len(block) : block[i] \in {" ", "\n"}

Pending == BagCardinality(relays)

\* C14: a relay request that settles, delivered or failed, is only logged:
\* it leaves the handle, the children and every in-flight request as they
\* were, and after a failure a later stderr chunk is still relayed.
C14_RelayFailureOnlyLogged ==
    [][/\ (Pending' < Pending =>
             /\ viteProcess' = viteProcess
             /\ events' = events
             /\ exited' = exited
             /\ conns' = conns)
       /\ (relayFailed /\ lastStderr' # lastStderr /\ ~Blank(lastStderr'.block) =>
             Pending' = Pending + 1)]_vars

\* After a failed relay the child is still running, a request is in flight
\* and a later chunk has been relayed.
C14_Witness ==
    /\ relayFailed
    /\ relays # EmptyBag
    /\ viteProcess # NoChild
    /\ viteProcess \in Unsignalled
    /\ \E c \in Conns : Proxied(c) /\ c.phase = "piping"

\* C20: every stderr chunk that is non-empty after trimming, from any child
\* spawned so far, starts exactly one relay request, and a whitespace-only
\* chunk starts none; nothing else starts a relay request.
C20_OneRelayPerChunk ==
    [][/\ (lastStderr' # lastStderr =>
             /\ lastStderr'.from \in SpawnedIn(events)
             /\ IF Blank(lastStderr'.block)
                THEN relays' = relays
                ELSE /\ Pending' = Pending + 1
                     /\ \E r \in BagToSet(relays') :
                          /\ r.text # <<>>
                          /\ relays' = relays (+) SetToBag({r}))
       /\ (Pending' > Pending =>
             /\ Pending' = Pending + 1
             /\ lastStderr'.from \in SpawnedIn(events)
             /\ ~Blank(lastStderr'.block))]_vars

\* A child that was signalled and replaced has written a non-blank chunk
\* and its relay request is pending.
C20_Witness ==
    /\ lastStderr.from \in KilledIn(events)
    /\ lastStderr.from # viteProcess
    /\ viteProcess # NoChild
    /\ ~Blank(lastStderr.block)
    /\ relays # EmptyBag

\* The value of a request header, when it is one of vals.
HeaderIn(req, name, vals) ==
    /\ req.hdr[name] # Absent
    /\ req.hdr[name] \in vals

\* C15: isNavigationRequest is true exactly when the method is GET, Accept
\* contains text/html, Sec-Fetch-Dest is document, Sec-Fetch-Mode is navigate
\* and Sec-Fetch-Site is none, same-origin or cross-site; an absent header
\* meets none of the conditions.
C15_NavigationIff ==
    answer.kind = "nav" =>
        (answer.nav <=>
            /\ probe.req.method = "GET"
            /\ probe.req.hdr.accept # Absent
            /\ \E i \in 1..Len(probe.req.hdr.accept) :
                 probe.req.hdr.accept[i] = "text/html"
            /\ HeaderIn(probe.req, "dest", { <<"document">> })
            /\ HeaderIn(probe.req, "mode", { <<"navigate">> })
            /\ HeaderIn(probe.req, "site",
                        { <<"none">>, <<"same-origin">>, <<"cross-site">> }))

\* A request that meets every condition but the Sec-Fetch-Site one has been
\* classified.
C15_Witness ==
    /\ answer.kind = "nav"
    /\ ~answer.nav
    /\ probe.req.method = "GET"
    /\ HeaderIn(probe.req, "accept", { <<"*/*", ",", "text/html">> })
    /\ HeaderIn(probe.req, "dest", { <<"document">> })
    /\ HeaderIn(probe.req, "mode", { <<"navigate">> })
    /\ HeaderIn(probe.req, "site", { <<"same-site">> })

Occurrences(s, p) == Cardinality({ i \in 1..Len(s) : MatchesAt(s, p, i) })

\* C16: injecting into an injected document changes nothing, a document
\* that already carries the sentinel is returned unchanged, and no document
\* gains more than one sentinel however often it is injected.
C16_InjectIdempotent ==
    /\ (answer.kind = "inject2" =>
          /\ answer.html = answer.once
          /\ Occurrences(answer.html, Marker) =
                (IF Includes(probe.html, Marker)
                 THEN Occurrences(probe.html, Marker) ELSE 1))
    /\ (answer.kind \in {"inject", "inject2"} /\ Includes(probe.html, Marker) =>
          answer.once = probe.html)

\* A document without the sentinel has been injected twice.
C16_Witness ==
    /\ answer.kind = "inject2"
    /\ ~Includes(probe.html, Marker)
    /\ Includes(probe.html, HeadClose)
    /\ Occurrences(answer.html, Marker) = 1

\* The position before which pattern p first occurs in s, as the number of
\* pieces in front of it.
Before(s, p, i) ==
    /\ MatchesAt(s, p, i + 1)
    /\ \A j \in 1..i : ~MatchesAt(s, p, j)

\* C17: for a document without the sentinel the tag is inserted exactly
\* once: immediately before the first closing head tag if there is one,
\* otherwise immediately before the first closing body tag if there is one,
\* otherwise appended after a newline; the original content is kept in order
\* on both sides of the tag.
C17_InsertionCascade ==
    answer.kind \in {"inject", "inject2"} /\ ~Includes(probe.html, Marker) =>
        LET h == probe.html
            out == answer.once
            hasHead == \E i \in 0..Len(h) : Before(h, HeadClose, i)
            hasBody == \E i \in 0..Len(h) : Before(h, BodyClose, i)
            InsertedAt(i, ins) ==
                out = SubSeq(h, 1, i) \o ins \o SubSeq(h, i + 1, Len(h))
        IN /\ Occurrences(out, Marker) = 1
           /\ IF hasHead
              THEN \E i \in 0..Len(h) : Before(h, HeadClose, i) /\ InsertedAt(i, Tag)
              ELSE IF hasBody
              THEN \E i \in 0..Len(h) : Before(h, BodyClose, i) /\ InsertedAt(i, Tag)
              ELSE InsertedAt(Len(h), <<"\n">> \o Tag)

\* A document whose closing body tag comes before its closing head tag has
\* been injected.
C17_Witness ==
    /\ answer.kind = "inject"
    /\ probe.html = <<"x", "</bo", "dy>", "</he", "ad>">>
    /\ answer.once = <<"x", "</bo", "dy>">> \o Tag \o HeadClose

\* C19: the guard matches the full original URL exactly, so in development
\* a request to an allow-listed path that carries a query string fails the
\* guard and is forwarded to the upstream instead of being handled locally.
C19_QueryStringFailsGuard ==
    env = "development" =>
        \A c \in Conns :
            (/\ c.req # NoReq
             /\ PathOf(c.req.url) \in allowedRoutes
             /\ c.req.url # PathOf(c.req.url)) =>
                (Proxied(c) \/ c.handler = "upgrade")

====
